---- MODULE Spec2Model ----
(***************************************************************************)
(* Soil Carbon API: POST /soil_carbon of main.py (the OSSL lookup) and of  *)
(* main_simple.py (the mock variant).                                      *)
(*                                                                         *)
(* Units.  Floats of the program are scaled to integers:                   *)
(*   latitude, longitude : 1/10000 degree   (42.3601 deg = 423601)         *)
(*   max_distance_km     : 1/1000 km = 1 m  (0.1 km = 100, 10.0 km = 10000)*)
(*   EPSG:3857 coordinates and distance_m : centimetres                    *)
(*   carbon percentages  : small integers                                  *)
(* Null stands for None / NaN, Omitted for a JSON field that is absent.    *)
(* Every float the model uses is a whole number of its unit.               *)
(***************************************************************************)
EXTENDS Integers, FiniteSets, Sequences

\* None / NaN and "field absent": integers outside every range of the model, so
\* that a nullable float stays an integer.  A nullable object is a sequence of
\* length at most one: <<>> is None.
Null == 0 - 999999999
Omitted == 0 - 999999998

-----------------------------------------------------------------------------
(* Bounds of the model *)

\* concurrent requests in flight
NumRequests == 2
\* rows of the dataset get_ossl() returns
NumSamples == 2

Requests == 1..NumRequests

-----------------------------------------------------------------------------
(* Program constants *)

UnitsPerDegree == 10 * 1000
UnitsPerKm == 10 * 100
CmPerMetre == 10 * 10

\* faulty variant: le=900
LatMaxTypo == 900 * UnitsPerDegree

\* Field(..., ge=-90, le=90)
LatMin == -90 * UnitsPerDegree
LatMax == 90 * UnitsPerDegree
\* Field(..., ge=-180, le=180)
LonMin == -180 * UnitsPerDegree
LonMax == 180 * UnitsPerDegree
\* Field(10.0, ge=0.1, le=1000)
DefaultMaxDistanceKm == 10 * UnitsPerKm
MinMaxDistanceKm == UnitsPerKm \div 10
MaxMaxDistanceKm == 1000 * UnitsPerKm
\* buffer_deg = max_distance_km / 111.0
KmPerDegree == 111

\* the "Boston, MA" scenario of the test script: 42.3601, -71.0589
BostonLat == 423601
BostonLon == -710589
\* its "Invalid coordinates" scenario: latitude 200.0
InvalidLat == 2000000

-----------------------------------------------------------------------------
(* The dataset: rows of ossl.get_properties([...], require_complete=False). *)
(* A row is its index label (id), the two coordinates and the three carbon  *)
(* fields; every one of the five columns may be null.                       *)

Row(id, lat, lon, iso, c1059, c729) ==
    [id |-> id, lat |-> lat, lon |-> lon,
     oc_iso |-> iso, oc_c1059 |-> c1059, oc_c729 |-> c729]

\* Rows the model draws datasets from, placed around the Boston query point
\* (offsets in 1/10000 degree).  For a 0.1 km radius: rows 1-3 are inside it,
\* row 4 is inside the bounding box only, row 5 outside the box; rows 6 and 7
\* lack a coordinate.  For the default radius of 10 km every located row is
\* inside.
Rows ==
    { Row(1, BostonLat,     BostonLon + 1,  Null, Null, Null),
      Row(2, BostonLat,     BostonLon + 2,  Null, 2,    3),
      Row(3, BostonLat + 5, BostonLon + 5,  1,    2,    3),
      Row(4, BostonLat + 7, BostonLon,      1,    Null, Null),
      Row(5, BostonLat,     BostonLon + 10, Null, Null, 3),
      Row(6, Null,          BostonLon,      1,    2,    3),
      Row(7, BostonLat + 4, Null,           Null, 2,    Null) }

Datasets == { d \in SUBSET Rows : Cardinality(d) <= NumSamples }

-----------------------------------------------------------------------------
(* Request bodies *)

Latitudes == { BostonLat, InvalidLat }
Longitudes == { BostonLon, LonMax + 1 }
MaxDistances == { Omitted, Null, MinMaxDistanceKm, MinMaxDistanceKm - 1 }

Bodies == [latitude : Latitudes, longitude : Longitudes,
           max_distance_km : MaxDistances]

VARIABLES
    variant,    \* "real": main.py is deployed; "mock": main_simple.py
    ossl,       \* the OSSL dataset behind get_ossl(): [available, rows]
    pc,         \* per request: "idle", "validated", "done"
    body,       \* per request: <<the JSON body received>>
    request,    \* per request: <<the SoilCarbonRequest built from the body>>
    response,   \* per request: <<the HTTP response sent>>
    calls,      \* per request: arguments of each find_soil_carbon_optimized call
    loads       \* per request: number of get_ossl() calls

vars == <<variant, ossl, pc, body, request, response, calls, loads>>

-----------------------------------------------------------------------------
(* Request validation: class SoilCarbonRequest(BaseModel) *)

\* latitude: float = Field(..., ge=-90, le=90): required, not nullable
LatitudeOk(v) == v # Omitted /\ v # Null /\ LatMin <= v /\ v <= LatMax

\* longitude: float = Field(..., ge=-180, le=180): required, not nullable
LongitudeOk(v) == v # Omitted /\ v # Null /\ LonMin <= v /\ v <= LonMax

\* max_distance_km: Optional[float] = Field(10.0, ge=0.1, le=1000): the field
\* may be absent (the default is used) or null (Optional admits None, and the
\* ge / le constraints apply to numbers only)
MaxDistanceOk(v) ==
    \/ v = Omitted
    \/ v = Null
    \/ (MinMaxDistanceKm <= v /\ v <= MaxMaxDistanceKm)

BodyValid(b) ==
    LatitudeOk(b.latitude) /\ LongitudeOk(b.longitude) /\ MaxDistanceOk(b.max_distance_km)

\* the model object built from an accepted body
SoilCarbonRequest(b) ==
    [latitude |-> b.latitude,
     longitude |-> b.longitude,
     max_distance_km |-> IF b.max_distance_km = Omitted
                         THEN DefaultMaxDistanceKm
                         ELSE b.max_distance_km]

-----------------------------------------------------------------------------
(* Responses *)

\* raise HTTPException(status_code, detail), and the framework's own 422
HTTPError(code, detail) == [status |-> code, body |-> [detail |-> detail]]

\* SoilCarbonResponse(success, message, data), sent with HTTP 200
SoilCarbonResponse(success, message, data) ==
    [status |-> 200,
     body |-> [success |-> success, message |-> message, data |-> data]]

-----------------------------------------------------------------------------
(* Geometry: to_crs(epsg=3857) and geometry.distance *)

\* Web Mercator easting in cm: R * lon, 1113.1949 cm per 1/10000 degree
ProjX(lon) == lon * 1113 + (lon * 195) \div 1000

\* Web Mercator northing in cm, R * ln(tan(pi/4 + lat/2)) with R = 6378137 m,
\* tabulated for the latitudes BostonLat .. BostonLat + 9
MercatorTable ==
    << 521507424, 521508930, 521510437, 521511943, 521513450,
       521514957, 521516463, 521517970, 521519476, 521520983 >>

ProjY(lat) == MercatorTable[lat - BostonLat + 1]

RECURSIVE SqrtSearch(_, _, _)
SqrtSearch(n, lo, hi) ==
    IF lo >= hi THEN lo
    ELSE LET mid == (lo + hi) \div 2
         IN IF mid * mid >= n THEN SqrtSearch(n, lo, mid)
                              ELSE SqrtSearch(n, mid + 1, hi)

\* the least r with r * r >= n
CeilSqrt(n) == SqrtSearch(n, 0, 46340)

\* distance_m: the planar distance of the reprojected row from the reprojected
\* input point, in cm (rounded up)
DistanceM(row, lat, lon) ==
    LET dx == ProjX(row.lon) - ProjX(lon)
        dy == ProjY(row.lat) - ProjY(lat)
    IN CeilSqrt(dx * dx + dy * dy)

-----------------------------------------------------------------------------
(* find_soil_carbon_optimized(lat, lon, max_distance_km) *)

\* props.dropna(subset=[latitude, longitude])
DropNa(rows) == { r \in rows : r.lat # Null /\ r.lon # Null }

\* faulty variant: the radius taken for a diameter, buffer_deg = max_distance_km / 2 / 111.0
InBBoxDiameter(row, lat, lon, max_distance_km) ==
    LET Abs(x) == IF x < 0 THEN 0 - x ELSE x
        reach == max_distance_km * (UnitsPerDegree \div UnitsPerKm)
    IN /\ Abs(row.lon - lon) * KmPerDegree * 2 <= reach
       /\ Abs(row.lat - lat) * KmPerDegree * 2 <= reach

\* sindex.intersection(input_point.buffer(buffer_deg).bounds) with
\* buffer_deg = max_distance_km / 111.0: the rows whose point lies in the
\* square [lon - buffer_deg, lon + buffer_deg] x [lat - buffer_deg, lat + buffer_deg]
InBBox(row, lat, lon, max_distance_km) ==
    LET Abs(x) == IF x < 0 THEN 0 - x ELSE x
        reach == max_distance_km * (UnitsPerDegree \div UnitsPerKm)
    IN /\ Abs(row.lon - lon) * KmPerDegree <= reach
       /\ Abs(row.lat - lat) * KmPerDegree <= reach

\* faulty variant: the exact distance filter left out, nearby = possible_matches_proj
WithinRadiusUnfiltered(row, lat, lon, max_distance_km) == TRUE

\* possible_matches_proj[distance_m <= max_distance_km * 1000]
WithinRadius(row, lat, lon, max_distance_km) ==
    DistanceM(row, lat, lon) <= max_distance_km * ((1000 * CmPerMetre) \div UnitsPerKm)

\* nearby.sort_values('distance_m').iloc[0]: a row of least distance_m; the
\* sort is not stable, so among equal distances any row may come first
Nearest(nearby, lat, lon) ==
    { r \in nearby :
        \A o \in nearby : DistanceM(r, lat, lon) <= DistanceM(o, lat, lon) }

\* faulty variant: the fields scanned in the opposite order
CarbonVarsReversed == << "oc_c729", "oc_c1059", "oc_iso" >>

\* for var in ['oc_iso.10694_w.pct', 'oc_usda.c1059_w.pct', 'oc_usda.c729_w.pct']
CarbonVars == << "oc_iso", "oc_c1059", "oc_c729" >>

\* the loop body: val = nearest.get(var); if pd.notnull(val): break.
\* Null is the for-else case: no field of the row holds a value.
RECURSIVE FirstAvailable(_, _)
FirstAvailable(row, k) ==
    IF k > Len(CarbonVars) THEN Null
    ELSE IF row[CarbonVars[k]] # Null THEN row[CarbonVars[k]]
    ELSE FirstAvailable(row, k + 1)

NoDataMessage(max_distance_km) == << "No Data in ", max_distance_km, " km radius" >>

NoCarbonMessage(max_distance_km) ==
    << "No organic carbon data available within ", max_distance_km, " km" >>

Raised(what) == [kind |-> "raise", error |-> what]
Returned(value) == [kind |-> "return", value |-> value]

\* faulty variant: the for loop without its else clause, carbon_val staying None
CarbonResultNoElse(nearest, lat, lon, max_distance_km) ==
    Returned([carbon_pct |-> IF nearest.oc_iso # Null THEN nearest.oc_iso
                             ELSE IF nearest.oc_c1059 # Null THEN nearest.oc_c1059
                             ELSE nearest.oc_c729,
              sample_id |-> nearest.id,
              distance_meters |-> DistanceM(nearest, lat, lon),
              latitude |-> nearest.lat,
              longitude |-> nearest.lon])

\* what the part after the nearest row is chosen returns
CarbonResult(nearest, lat, lon, max_distance_km) ==
    LET carbon_val == FirstAvailable(nearest, 1)
    IN IF carbon_val = Null
       THEN Returned([str |-> NoCarbonMessage(max_distance_km)])
       ELSE Returned([carbon_pct |-> carbon_val,
                      sample_id |-> nearest.id,
                      distance_meters |-> DistanceM(nearest, lat, lon),
                      latitude |-> nearest.lat,
                      longitude |-> nearest.lon])

\* The outcomes of one call: a returned dict, a returned str (a record with the
\* single field str), or the exception the except clause re-raises.
find_soil_carbon_optimized(lat, lon, max_distance_km) ==
    IF ~ossl.available
    THEN { Raised("get_ossl") }
    ELSE LET props == DropNa(ossl.rows)
         IN IF max_distance_km = Null
            THEN { Raised("TypeError: None / 111.0") }
            ELSE LET possible_matches ==
                         { r \in props : InBBox(r, lat, lon, max_distance_km) }
                     nearby ==
                         { r \in possible_matches :
                             WithinRadius(r, lat, lon, max_distance_km) }
                 IN IF possible_matches = {}
                    THEN { Returned([str |-> NoDataMessage(max_distance_km)]) }
                    ELSE IF nearby = {}
                    THEN { Returned([str |-> NoDataMessage(max_distance_km)]) }
                    ELSE { CarbonResult(n, lat, lon, max_distance_km) :
                             n \in Nearest(nearby, lat, lon) }

\* faulty variant: the isinstance test never true
IsStrNever(result) == FALSE

\* isinstance(result, str)
IsStr(result) == DOMAIN result = { "str" }

-----------------------------------------------------------------------------
(* POST /soil_carbon *)

\* One run of a handler: the response it ends with, the arguments of every
\* find_soil_carbon_optimized call it made, and its number of get_ossl() calls.
Run(resp, callArgs, nLoads) == [response |-> resp, calls |-> callArgs, loads |-> nLoads]

\* faulty variant: an exception of the lookup turned into a success=false answer
RespondSwallowing(o) ==
    IF o.kind = "raise"
    THEN SoilCarbonResponse(FALSE, << "Error processing soil carbon data: ", o.error >>, <<>>)
    ELSE IF IsStr(o.value)
    THEN SoilCarbonResponse(FALSE, o.value.str, <<>>)
    ELSE SoilCarbonResponse(TRUE, << "Soil carbon data found successfully" >>,
                            << o.value >>)

\* main.py: what get_soil_carbon makes of the outcome o of the lookup: the
\* isinstance(result, str) test, and the except clauses
Respond(o) ==
    IF o.kind = "raise"
    THEN HTTPError(500, << "Internal server error: ",
                           "Error processing soil carbon data: ", o.error >>)
    ELSE IF IsStr(o.value)
    THEN SoilCarbonResponse(FALSE, o.value.str, <<>>)
    ELSE SoilCarbonResponse(TRUE, << "Soil carbon data found successfully" >>,
                            << o.value >>)

\* main.py: get_soil_carbon(request)
get_soil_carbon(req) ==
    IF ~(LatMin <= req.latitude /\ req.latitude <= LatMax)
    THEN { Run(HTTPError(400, << "Latitude must be between -90 and 90 degrees" >>), <<>>, 0) }
    ELSE IF ~(LonMin <= req.longitude /\ req.longitude <= LonMax)
    THEN { Run(HTTPError(400, << "Longitude must be between -180 and 180 degrees" >>), <<>>, 0) }
    ELSE LET args == [lat |-> req.latitude, lon |-> req.longitude,
                      max_distance_km |-> req.max_distance_km]
         IN { Run(Respond(o), << args >>, 1) :
                o \in find_soil_carbon_optimized(args.lat, args.lon, args.max_distance_km) }

\* main_simple.py: get_soil_carbon(request); 0.01 degree is 100 units
get_soil_carbon_mock(req) ==
    IF ~(LatMin <= req.latitude /\ req.latitude <= LatMax)
    THEN { Run(HTTPError(400, << "Latitude must be between -90 and 90 degrees" >>), <<>>, 0) }
    ELSE IF ~(LonMin <= req.longitude /\ req.longitude <= LonMax)
    THEN { Run(HTTPError(400, << "Longitude must be between -180 and 180 degrees" >>), <<>>, 0) }
    ELSE LET mock_data == [carbon_pct |-> 25,
                           sample_id |-> "mock_12345",
                           distance_meters |-> 1500 * CmPerMetre,
                           latitude |-> req.latitude + UnitsPerDegree \div 100,
                           longitude |-> req.longitude + UnitsPerDegree \div 100,
                           note |-> "This is mock data."]
         IN { Run(SoilCarbonResponse(TRUE,
                                     << "Mock soil carbon data returned successfully" >>,
                                     << mock_data >>),
                  <<>>, 0) }

\* faulty variant: the request kept in one module-level variable, which holds
\* the first request validated
RequestOfGlobal(i) == request[CHOOSE j \in Requests : request[j] # <<>>][1]

\* the request object a handler invocation is given
RequestOf(i) == request[i][1]

-----------------------------------------------------------------------------
(* The state machine *)

Init ==
    /\ variant \in { "real", "mock" }
    /\ \/ /\ variant = "real"
          /\ \/ ossl \in [available : { TRUE }, rows : Datasets]
             \/ ossl = [available |-> FALSE, rows |-> {}]
       \/ /\ variant = "mock"
          /\ ossl = [available |-> FALSE, rows |-> {}]
    /\ pc = [i \in Requests |-> "idle"]
    /\ body = [i \in Requests |-> <<>>]
    /\ request = [i \in Requests |-> <<>>]
    /\ response = [i \in Requests |-> <<>>]
    /\ calls = [i \in Requests |-> <<>>]
    /\ loads = [i \in Requests |-> 0]

\* The framework reads the body and builds SoilCarbonRequest from it; a body
\* that fails validation is answered 422 and the handler is never entered.
Receive(i) ==
    /\ pc[i] = "idle"
    /\ \E b \in Bodies :
         /\ body' = [body EXCEPT ![i] = << b >>]
         /\ IF BodyValid(b)
            THEN /\ pc' = [pc EXCEPT ![i] = "validated"]
                 /\ request' = [request EXCEPT ![i] = << SoilCarbonRequest(b) >>]
                 /\ UNCHANGED response
            ELSE /\ pc' = [pc EXCEPT ![i] = "done"]
                 /\ response' = [response EXCEPT ![i] =
                                   << HTTPError(422, << "validation error" >>) >>]
                 /\ UNCHANGED request
    /\ UNCHANGED << variant, ossl, calls, loads >>

Finish(i, run) ==
    /\ pc' = [pc EXCEPT ![i] = "done"]
    /\ response' = [response EXCEPT ![i] = << run.response >>]
    /\ calls' = [calls EXCEPT ![i] = run.calls]
    /\ loads' = [loads EXCEPT ![i] = run.loads]
    /\ UNCHANGED << variant, ossl, body, request >>

\* main.py's handler, entered once per validated request
Handle(i) ==
    /\ variant = "real"
    /\ pc[i] = "validated"
    /\ \E run \in get_soil_carbon(RequestOf(i)) : Finish(i, run)

\* main_simple.py's handler
HandleMock(i) ==
    /\ variant = "mock"
    /\ pc[i] = "validated"
    /\ \E run \in get_soil_carbon_mock(RequestOf(i)) : Finish(i, run)

Next == \E i \in Requests : Receive(i) \/ Handle(i) \/ HandleMock(i)

Spec == Init /\ [][Next]_vars

-----------------------------------------------------------------------------
(* Vocabulary of the properties *)

Received(i) == body[i] # <<>>
Done(i) == pc[i] = "done"
BodyOf(i) == body[i][1]
ResponseTo(i) == response[i][1]

\* a coordinate of the body lies outside [-90, 90] x [-180, 180]
OutOfRange(b) ==
    \/ b.latitude < -90 * UnitsPerDegree
    \/ b.latitude > 90 * UnitsPerDegree
    \/ b.longitude < -180 * UnitsPerDegree
    \/ b.longitude > 180 * UnitsPerDegree

\* the radius of a body, the default filled in
RadiusOf(b) ==
    IF b.max_distance_km = Omitted THEN 10 * UnitsPerKm ELSE b.max_distance_km

\* a valid request in the sense of the interface: both coordinates in range and
\* a radius (given, or the default) that is a number in [0.1, 1000]
ValidBody(b) ==
    /\ ~OutOfRange(b)
    /\ RadiusOf(b) # Null
    /\ UnitsPerKm \div 10 <= RadiusOf(b)
    /\ RadiusOf(b) <= 1000 * UnitsPerKm

\* the rows of the dataset that have both coordinates
Located == { r \in ossl.rows : r.lat # Null /\ r.lon # Null }

\* the radius of body b in cm
RadiusCm(b) == RadiusOf(b) * ((1000 * CmPerMetre) \div UnitsPerKm)

\* the located rows whose reprojected distance from b's point is within b's radius
InRadius(b) ==
    { r \in Located : DistanceM(r, b.latitude, b.longitude) <= RadiusCm(b) }

HasCarbon(r) == r.oc_iso # Null \/ r.oc_c1059 # Null \/ r.oc_c729 # Null

\* request i was answered by main.py's lookup with the dataset at hand
LookedUp(i) ==
    /\ variant = "real"
    /\ Done(i)
    /\ ValidBody(BodyOf(i))
    /\ ossl.available

IsNoDataResponse(r) ==
    /\ r.status = 200
    /\ r.body.success = FALSE
    /\ r.body.data = <<>>
    /\ r.body.message[1] = "No Data in "

-----------------------------------------------------------------------------
(* C1: a request whose latitude is outside [-90, 90] or whose longitude is   *)
(* outside [-180, 180] is rejected with a client error (4xx) before lookup,  *)
(* in both variants: find_soil_carbon_optimized is never called for it, the  *)
(* dataset is never loaded for it, and its response is never HTTP 200.       *)
C1_RejectedBeforeLookup ==
    \A i \in Requests :
        (Received(i) /\ OutOfRange(BodyOf(i)))
            => /\ Done(i)
               /\ ResponseTo(i).status # 200
               /\ ResponseTo(i).status \in 400..499
               /\ calls[i] = <<>>
               /\ loads[i] = 0

\* an out-of-range request was rejected while another request of the same
\* deployment went through the lookup
C1_Witness ==
    \E i, j \in Requests :
        /\ Received(i) /\ OutOfRange(BodyOf(i)) /\ Done(i)
        /\ BodyOf(i).latitude = InvalidLat
        /\ Done(j) /\ Len(calls[j]) = 1

-----------------------------------------------------------------------------
(* C2: a valid request for which no dataset sample lies within               *)
(* max_distance_km of the query point gets HTTP 200 with success=false,      *)
(* data=null and a message beginning with "No Data", both when the bounding  *)
(* box holds no candidate and when it holds candidates that are all farther  *)
(* than the radius.                                                          *)
C2_NoDataWhenNothingNear ==
    \A i \in Requests :
        (LookedUp(i) /\ InRadius(BodyOf(i)) = {})
            => IsNoDataResponse(ResponseTo(i))

\* the bounding box of the request holds a row, and every row is farther than
\* the radius
C2_Witness ==
    \E i \in Requests :
        /\ LookedUp(i) /\ InRadius(BodyOf(i)) = {}
        /\ \E r \in Located :
             InBBox(r, BodyOf(i).latitude, BodyOf(i).longitude, RadiusOf(BodyOf(i)))

\* the other case: rows exist, none of them in the bounding box
C2_WitnessEmptyBox ==
    \E i \in Requests :
        /\ LookedUp(i) /\ Located # {}
        /\ \A r \in Located :
             ~InBBox(r, BodyOf(i).latitude, BodyOf(i).longitude, RadiusOf(BodyOf(i)))

-----------------------------------------------------------------------------
(* C3: whenever a sample within max_distance_km has a non-null value in one  *)
(* of the three carbon fields, the lookup returns a data dict (success=true) *)
(* for the nearest such sample, even if a nearer sample within the radius    *)
(* has all three carbon fields null.                                         *)
C3_NearestWithCarbon ==
    \A i \in Requests :
        LookedUp(i) =>
            LET b == BodyOf(i)
                withCarbon == { r \in InRadius(b) : HasCarbon(r) }
                r == ResponseTo(i)
            IN withCarbon # {} =>
                 /\ r.status = 200
                 /\ r.body.success = TRUE
                 /\ r.body.data # <<>>
                 /\ \E n \in withCarbon :
                      /\ n.id = r.body.data[1].sample_id
                      /\ \A o \in withCarbon :
                           DistanceM(n, b.latitude, b.longitude)
                               <= DistanceM(o, b.latitude, b.longitude)

-----------------------------------------------------------------------------
(* C4: a valid request for which samples exist within the radius, none of    *)
(* them with a non-null value in any of the three carbon fields, gets HTTP   *)
(* 200 with success=false, data=null and an explanatory message: never       *)
(* success=true, never a server error.                                       *)
C4_NoCarbonIsNotSuccess ==
    \A i \in Requests :
        (/\ LookedUp(i)
         /\ InRadius(BodyOf(i)) # {}
         /\ \A r \in InRadius(BodyOf(i)) : ~HasCarbon(r))
            => /\ ResponseTo(i).status = 200
               /\ ResponseTo(i).body.success = FALSE
               /\ ResponseTo(i).body.data = <<>>
               /\ Len(ResponseTo(i).body.message) > 0

\* the only row within the radius has no carbon value, and a row outside the
\* radius has one
C4_Witness ==
    \E i \in Requests :
        /\ LookedUp(i)
        /\ InRadius(BodyOf(i)) # {}
        /\ \A r \in InRadius(BodyOf(i)) : ~HasCarbon(r)
        /\ \E r \in Located \ InRadius(BodyOf(i)) : HasCarbon(r)
        /\ ResponseTo(i).body.message[1] = "No organic carbon data available within "

-----------------------------------------------------------------------------
(* C5: in every HTTP 200 response of POST /soil_carbon (both variants),      *)
(* success=true if and only if data is non-null, and when success=true the   *)
(* data object has at least the keys carbon_pct, sample_id, distance_meters, *)
(* latitude and longitude, with carbon_pct non-null.                         *)
C5_SuccessIffData ==
    \A i \in Requests :
        (Done(i) /\ ResponseTo(i).status = 200) =>
            LET r == ResponseTo(i).body
            IN /\ (r.success = TRUE) <=> (r.data # <<>>)
               /\ r.success = TRUE =>
                    /\ { "carbon_pct", "sample_id", "distance_meters",
                         "latitude", "longitude" } \subseteq DOMAIN r.data[1]
                    /\ r.data[1].carbon_pct # Null

\* main.py answered one request with data and another with success=false
C5_Witness ==
    \E i, j \in Requests :
        /\ variant = "real" /\ Done(i) /\ Done(j)
        /\ ResponseTo(i).status = 200 /\ ResponseTo(i).body.success = TRUE
        /\ ResponseTo(j).status = 200 /\ ResponseTo(j).body.success = FALSE

-----------------------------------------------------------------------------
(* C6: for every body accepted by validation, the max_distance_km passed to  *)
(* find_soil_carbon_optimized is a number in [0.1, 1000]; it is 10.0 when    *)
(* the field is omitted; no accepted body, one giving max_distance_km as     *)
(* null included, reaches the lookup with a missing or out-of-range radius.  *)
C6_RadiusInRangeAtLookup ==
    \A i \in Requests :
        \A k \in 1..Len(calls[i]) :
            LET passed == calls[i][k].max_distance_km
            IN /\ passed # Null
               /\ passed # Omitted
               /\ UnitsPerKm \div 10 <= passed
               /\ passed <= 1000 * UnitsPerKm
               /\ BodyOf(i).max_distance_km = Omitted => passed = 10 * UnitsPerKm

-----------------------------------------------------------------------------
(* C7: for every validated request the lookup (dataset load plus query) is   *)
(* attempted exactly once; if a step of it raises, the request ends with     *)
(* HTTP 500: it is never retried, never answered with HTTP 200 and never     *)
(* turned into a success=false response.                                     *)
C7_OneAttemptThen500 ==
    \A i \in Requests :
        /\ Len(calls[i]) <= 1
        /\ loads[i] <= 1
        /\ (variant = "real" /\ Done(i) /\ request[i] # <<>>) =>
             /\ Len(calls[i]) = 1
             /\ loads[i] = 1
             /\ (~ossl.available \/ calls[i][1].max_distance_km = Null)
                   => /\ ResponseTo(i).status = 500
                      /\ DOMAIN ResponseTo(i).body = { "detail" }

\* both ways the lookup raises in one state: here the dataset loads and the
\* radius is None; the other request shows the same deployment answering 200
C7_Witness ==
    \E i, j \in Requests :
        /\ variant = "real" /\ ossl.available
        /\ Done(i) /\ request[i] # <<>> /\ calls[i][1].max_distance_km = Null
        /\ ResponseTo(i).status = 500
        /\ Done(j) /\ ResponseTo(j).status = 200

\* the dataset cannot be loaded
C7_WitnessLoadFails ==
    \E i \in Requests :
        /\ variant = "real" /\ ~ossl.available
        /\ Done(i) /\ request[i] # <<>> /\ ResponseTo(i).status = 500

-----------------------------------------------------------------------------
(* C8: whenever the lookup returns a data dict, carbon_pct is the returned   *)
(* sample's value in the first non-null field in the order oc_iso.10694,     *)
(* oc_usda.c1059, oc_usda.c729: a lower-priority field is used only when     *)
(* every higher-priority field of that sample is null.                       *)
C8_FieldPriority ==
    \A i \in Requests :
        (LookedUp(i) /\ ResponseTo(i).status = 200 /\ ResponseTo(i).body.success = TRUE) =>
            LET d == ResponseTo(i).body.data[1]
            IN \E n \in ossl.rows :
                 /\ n.id = d.sample_id
                 /\ d.carbon_pct =
                      IF n.oc_iso # Null THEN n.oc_iso
                      ELSE IF n.oc_c1059 # Null THEN n.oc_c1059
                      ELSE n.oc_c729

\* the returned sample has no oc_iso value and two lower-priority values
C8_Witness ==
    \E i \in Requests :
        /\ LookedUp(i) /\ ResponseTo(i).status = 200 /\ ResponseTo(i).body.success = TRUE
        /\ \E n \in ossl.rows :
             /\ n.id = ResponseTo(i).body.data[1].sample_id
             /\ n.oc_iso = Null /\ n.oc_c1059 # Null /\ n.oc_c729 # Null

-----------------------------------------------------------------------------
(* C9: whenever the lookup returns a data dict, the returned sample has both *)
(* coordinates, its distance_meters is at most max_distance_km * 1000, and   *)
(* no sample of the whole dataset with both coordinates has a strictly       *)
(* smaller reprojected distance to the query point; that is, the bounding    *)
(* box of buffer max_distance_km / 111 degrees never excludes a sample the   *)
(* exact distance filter would accept.                                       *)
C9_BoxKeepsTheNearest ==
    \A i \in Requests :
        LookedUp(i) =>
            LET b == BodyOf(i)
            IN /\ \A r \in InRadius(b) :
                    InBBox(r, b.latitude, b.longitude, RadiusOf(b))
               /\ (ResponseTo(i).status = 200 /\ ResponseTo(i).body.success = TRUE) =>
                    LET d == ResponseTo(i).body.data[1]
                    IN /\ d.latitude # Null /\ d.longitude # Null
                       /\ d.distance_meters <= RadiusCm(b)
                       /\ \E n \in Located :
                            /\ n.id = d.sample_id
                            /\ d.distance_meters = DistanceM(n, b.latitude, b.longitude)
                       /\ \A o \in Located :
                            d.distance_meters <= DistanceM(o, b.latitude, b.longitude)

\* data was returned for a row on the diagonal of the box while the dataset
\* also holds a row the box keeps and the radius excludes
C9_Witness ==
    \E i \in Requests :
        /\ LookedUp(i) /\ ResponseTo(i).status = 200 /\ ResponseTo(i).body.success = TRUE
        /\ ResponseTo(i).body.data[1].latitude # BodyOf(i).latitude
        /\ ResponseTo(i).body.data[1].longitude # BodyOf(i).longitude
        /\ \E r \in Located \ InRadius(BodyOf(i)) :
             InBBox(r, BodyOf(i).latitude, BodyOf(i).longitude, RadiusOf(BodyOf(i)))

-----------------------------------------------------------------------------
(* C10: requests are handled independently.  For a fixed dataset the         *)
(* response to a request depends on its body only: under any interleaving of *)
(* concurrent requests, rejected and failing ones included, each request     *)
(* gets a response it would get if processed alone, and no step taken for    *)
(* one request changes the state of another or the dataset.                  *)

\* the responses the deployment gives to body b processed alone
ResponsesAlone(b) ==
    IF ~BodyValid(b)
    THEN { HTTPError(422, << "validation error" >>) }
    ELSE IF variant = "real"
    THEN { run.response : run \in get_soil_carbon(SoilCarbonRequest(b)) }
    ELSE { run.response : run \in get_soil_carbon_mock(SoilCarbonRequest(b)) }

LocalState(i) == << pc[i], body[i], request[i], response[i], calls[i], loads[i] >>

C10_IndependentRequests ==
    /\ [](\A i \in Requests : Done(i) => ResponseTo(i) \in ResponsesAlone(BodyOf(i)))
    /\ [][ /\ ossl' = ossl
           /\ variant' = variant
           /\ \E i \in Requests :
                \A j \in Requests \ { i } : LocalState(j)' = LocalState(j) ]_vars

\* two requests with different bodies were both validated before either was
\* handled, and one is answered while the other still waits
C10_Witness ==
    \E i, j \in Requests :
        /\ variant = "real" /\ ossl.available /\ ossl.rows # {}
        /\ pc[i] = "validated" /\ Done(j) /\ request[j] # <<>>
        /\ request[i] # request[j]
        /\ ResponseTo(j).status = 200

====
